---------------------------- MODULE Spec2Model ----------------------------
(***************************************************************************)
(* Model of the AI video editor.                                           *)
(*                                                                         *)
(* src/src/App.tsx: the React state `projects`, and the handlers that      *)
(* change it: handleFileUpload (submission, upload-progress callback,      *)
(* upload resolution and rejection), simulateProcessing (the 800 ms        *)
(* interval) and generateAISuggestions; the playback position currentTime. *)
(*                                                                         *)
(* src/src/components/VideoTimeline.tsx: the segments the timeline draws,  *)
(* the timeline click and the segment click.                               *)
(*                                                                         *)
(* src/src/components/ExportOptions.tsx: the export settings and their     *)
(* estimates (ExportOptions), and the list of insights that                *)
(* AIProcessingInsights builds from its timers.                            *)
(*                                                                         *)
(* One action is one browser task: a handler runs from its start to its    *)
(* first suspension on a promise that a later task settles.  Numbers that  *)
(* the code draws from Math.random() are inputs of the action.  The random *)
(* increment Math.random() * 8 + 2 is a real number in [2, 10); the model  *)
(* draws it from a set of integers of that interval.                       *)
(***************************************************************************)
EXTENDS Integers, Sequences, FiniteSets, TLC

\* ---------------------------------------------------------------- bounds
\* Number of handleFileUpload calls that are accepted in one run.
MaxSubmits == 2
\* Number of milliseconds the clock advances in one run.
MaxClock == 1
\* Value of Date.now() when the page is loaded.
ClockBase == 10

\* ------------------------------------------------------------- constants
\* validateVideoFile: 500 * 1024 * 1024
maxSize == 524288000
\* bytes per MB in `file.size / (1024 * 1024)`
MB == 1048576
\* Math.min(percent, 15) and `progress: 15`
UploadShare == 15
\* `progress < 20 ? 'uploading' : 'processing'`
UploadingBelow == 20
\* useState(154): the duration of the asset in seconds; setDuration is never
\* called.
duration == 154
\* updateEstimates: `baseSize = 45` (MB) and `baseTime = 2` (minutes)
baseSize == 45
baseTime == 2

allowedTypes == {"video/mp4", "video/mov", "video/avi", "video/mkv", "video/webm"}

processingSteps == <<15, 30, 45, 60, 75, 90, 100>>

\* ---------------------------------------------------------------- inputs
\* Files offered to handleFileUpload: [name, type, size in bytes].
Files ==
  { [name |-> "a.mp4", type |-> "video/mp4", size |-> 3 * MB],
    [name |-> "b.mov", type |-> "video/mov", size |-> maxSize],
    [name |-> "c.mp4", type |-> "video/mp4", size |-> maxSize + 1],
    [name |-> "d.png", type |-> "image/png", size |-> MB] }

\* Percentages the storage client passes to onProgress (0..100), in any order.
Percents == {10, 60}

\* Percentages outside 0..100, which the type `number` of onProgress admits.
OutOfRangePercents == {-5}

\* Values of Math.random() * 8 + 2, a real number of [2, 10).
Increments == {3, 9}

\* The inputs of the specification with fairness: one file that is accepted,
\* one that is rejected, one percentage.
FairFiles == {file \in Files : file.name \in {"a.mp4", "d.png"}}
FairPercents == {10}

Users == {"null", "u1"}

Terminal == {"completed", "error"}
Statuses == {"uploading", "processing", "completed", "error"}

VARIABLES
  user,          \* useState user: "null" or the signed-in user
  now,           \* milliseconds since page load; Date.now() = ClockBase + now
  projects,      \* useState projects: sequence of VideoProject, head first
  selectedFile,  \* useState selectedFile: name of the file, "" for null
  calls,         \* the accepted handleFileUpload calls, in call order
  toast,         \* title of the last toast shown, "" for none
  currentTime,      \* App: useState currentTime, in seconds
  selectedSegment,  \* VideoTimeline: useState selectedSegment, "" for null
  selectedPreset,   \* ExportOptions: useState selectedPreset
  customSettings,   \* ExportOptions: useState customSettings
  estimatedSize,    \* ExportOptions: useState estimatedSize, the text shown
  estimatedTime,    \* ExportOptions: useState estimatedTime, the text shown
  isProcessing,     \* AIProcessingInsights: the isProcessing prop
  insights,         \* AIProcessingInsights: useState insights
  analyses,         \* the simulateAIAnalysis calls made, with their timers
  isExporting,      \* App: useState isExporting
  exportProgress,   \* App: useState exportProgress
  exports           \* the App.handleExport calls made, in call order

\* The state of the timeline, of ExportOptions and of AIProcessingInsights.
timeline == <<currentTime, selectedSegment>>
export == <<selectedPreset, customSettings, estimatedSize, estimatedTime>>
analysis == <<isProcessing, insights, analyses>>
exporting == <<isExporting, exportProgress, exports>>
ui == <<timeline, export, analysis, exporting>>

vars == <<user, now, projects, selectedFile, calls, toast, ui>>

\* ---------------------------------------------------------- pure helpers
Min(a, b) == IF a < b THEN a ELSE b

\* (file.size / (1024 * 1024)).toFixed(1), in tenths of a MB.
SizeLabel(size) ==
  (size \div MB) * 10 + (((size % MB) * 10 + (MB \div 2)) \div MB)

validateVideoFile(file) ==
  IF file.type \notin allowedTypes THEN "Please upload a valid video file"
  ELSE IF file.size > maxSize THEN "File size must be less than 500MB"
  ELSE "valid"

\* The update written as prev.filter(p => p.id === id).map(...): the
\* projects of another id are dropped.
MapMatchingOnly(prev, id, changed) ==
  SelectSeq([i \in DOMAIN prev |-> IF prev[i].id = id THEN changed[i] ELSE prev[i]],
            LAMBDA p : p.id = id)

\* prev.map(p => p.id === id ? { ...p, changes } : p), where changed[i] is
\* prev[i] with the changes.
MapById(prev, id, changed) ==
  [i \in DOMAIN prev |-> IF prev[i].id = id THEN changed[i] ELSE prev[i]]

DateNow == ClockBase + now

InitialProjects ==
  << [id |-> 1, name |-> "Summer Vacation 2024.mp4", status |-> "completed",
      progress |-> 100, duration |-> "2:34", size |-> 452,
      aiSuggestions |-> <<>>],
     [id |-> 2, name |-> "Product Demo.mov", status |-> "processing",
      progress |-> 67, duration |-> "1:12", size |-> 281,
      aiSuggestions |-> <<>>] >>

\* ExportOptions: useState<ExportSettings>({...}).
initialSettings ==
  [format |-> "mp4", resolution |-> "1920x1080", quality |-> 80,
   bitrate |-> 8000, fps |-> 30, codec |-> "h264", audioQuality |-> 192,
   includeSubtitles |-> FALSE, watermark |-> FALSE]

\* insightTemplates: the analysis types, in the order of the array.
insightTemplates ==
  <<"scene_detection", "audio_analysis", "color_grading", "motion_tracking",
    "quality_enhancement">>

\* isProcessing={projects.some(p => p.status === 'processing')}
IsProcessingProp(list) == \E i \in DOMAIN list : list[i].status = "processing"

\* simulateAIAnalysis(): one setTimeout per template.  Timer index + 1 is
\* that of template `index`: its timeout is pending ("timeout"), or its
\* progressInterval runs with the local `progress` ("interval"), or the
\* interval is cleared ("cleared").
simulateAIAnalysis ==
  [index \in DOMAIN insightTemplates |-> [pc |-> "timeout", progress |-> 0]]

\* useEffect(() => { if (isProcessing) simulateAIAnalysis() }, [isProcessing])
AnalysesAfterEffect(prev, flag) ==
  IF flag THEN Append(prev, simulateAIAnalysis) ELSE prev

Init ==
  /\ user = "null"
  /\ now = 0
  /\ projects = InitialProjects
  /\ selectedFile = ""
  /\ calls = <<>>
  /\ toast = ""
  /\ currentTime = 0
  /\ selectedSegment = ""
  /\ selectedPreset = "youtube"
  /\ customSettings = initialSettings
  /\ estimatedSize = "45.2 MB"
  /\ estimatedTime = "2-3 minutes"
  /\ isProcessing = IsProcessingProp(InitialProjects)
  /\ insights = <<>>
  /\ analyses = AnalysesAfterEffect(<<>>, isProcessing)
  /\ isExporting = FALSE
  /\ exportProgress = 0
  /\ exports = <<>>

\* ---------------------------------------------------------------- actions
\* blink.auth.onAuthStateChanged callback: setUser(state.user).
onAuthStateChanged(u) ==
  /\ user' = u
  /\ UNCHANGED <<now, projects, selectedFile, calls, toast, ui>>

\* The wall clock advances by one millisecond.
ClockTick ==
  /\ now < MaxClock
  /\ now' = now + 1
  /\ UNCHANGED <<user, projects, selectedFile, calls, toast, ui>>

\* handleFileUpload(file), `if (!user) return`.
handleFileUploadNoUser(file) ==
  /\ user = "null"
  /\ UNCHANGED vars

\* The rejection that also lists the file, as a project in 'error'.
handleFileUploadInvalidListed(file) ==
  /\ user # "null"
  /\ validateVideoFile(file) # "valid"
  /\ toast' = "Upload Error"
  /\ projects' = <<[id |-> DateNow, name |-> file.name, status |-> "error",
                    progress |-> 0, duration |-> "", size |-> 0,
                    aiSuggestions |-> <<>>]>> \o projects
  /\ UNCHANGED <<user, now, selectedFile, calls, ui>>

\* handleFileUpload(file), validation fails: toast and return.
handleFileUploadInvalid(file) ==
  /\ user # "null"
  /\ validateVideoFile(file) # "valid"
  /\ toast' = "Upload Error"
  /\ UNCHANGED <<user, now, projects, selectedFile, calls, ui>>

\* Whether a project of the asset (the file name) is uploading or processing.
ActiveAsset(name) ==
  \E i \in DOMAIN projects :
    projects[i].name = name /\ projects[i].status \in {"uploading", "processing"}

\* Admits with a per-asset lock: a file whose asset is active is turned away.
AdmitsUnlessActive(file) ==
  /\ user # "null"
  /\ validateVideoFile(file) = "valid"
  /\ ~ActiveAsset(file.name)

\* The conditions under which handleFileUpload goes on to create a project.
Admits(file) ==
  /\ user # "null"
  /\ validateVideoFile(file) = "valid"

\* The project created as already processing, with the upload share done.
newProjectProcessing(file) ==
  [id |-> DateNow, name |-> file.name, status |-> "processing",
   progress |-> UploadShare, duration |-> "", size |-> SizeLabel(file.size),
   aiSuggestions |-> <<>>]

newProject(file) ==
  [id |-> DateNow, name |-> file.name, status |-> "uploading", progress |-> 0,
   duration |-> "", size |-> SizeLabel(file.size), aiSuggestions |-> <<>>]

\* handleFileUpload(file) up to `await blink.storage.upload(...)`.
\* closureHasId: whether `projects` of the render the handler closes over
\* holds a project with the new id (generateAISuggestions reads it).
handleFileUploadAccepted(file) ==
  /\ Admits(file)
  /\ Len(calls) < MaxSubmits
  /\ selectedFile' = file.name
  /\ projects' = <<newProject(file)>> \o projects
  /\ calls' = Append(calls,
       [id |-> DateNow, name |-> file.name, pc |-> "upload", progress |-> 0,
        currentStepIndex |-> 0,
        closureHasId |-> (\E i \in DOMAIN projects : projects[i].id = DateNow)])
  /\ UNCHANGED <<user, now, toast, ui>>

\* The percentage stored as it arrives, without the cap.
UploadProgressUncapped(percent) == percent

\* Math.min(percent, 15): the upload is the first 15% of the progress.
UploadProgress(percent) == Min(percent, UploadShare)

\* onProgress(percent) of call c while its upload is in flight.
onProgress(c, percent) ==
  /\ calls[c].pc = "upload"
  /\ projects' = MapById(projects, calls[c].id,
       [i \in DOMAIN projects |->
          [projects[i] EXCEPT !.progress = UploadProgress(percent)]])
  /\ UNCHANGED <<user, now, selectedFile, calls, toast, ui>>

StartProcessing(p) == [p EXCEPT !.status = "processing", !.progress = UploadShare]

\* The upload promise of call c resolves: status 'processing', progress 15,
\* simulateProcessing(newProject.id) sets up its interval.
UploadResolved(c) ==
  /\ calls[c].pc = "upload"
  /\ projects' = MapById(projects, calls[c].id,
       [i \in DOMAIN projects |-> StartProcessing(projects[i])])
  /\ calls' = [calls EXCEPT ![c].pc = "interval", ![c].progress = 0,
                            ![c].currentStepIndex = 0]
  /\ toast' = "Upload Started"
  /\ UNCHANGED <<user, now, selectedFile, ui>>

\* The catch block written with a reset of the progress.
MarkErrorAndReset(p) == [p EXCEPT !.status = "error", !.progress = 0]

\* { ...p, status: 'error' }
MarkError(p) == [p EXCEPT !.status = "error"]

\* The upload promise of call c rejects: the catch block.
UploadRejected(c) ==
  /\ calls[c].pc = "upload"
  /\ projects' = MapById(projects, calls[c].id,
       [i \in DOMAIN projects |-> MarkError(projects[i])])
  /\ calls' = [calls EXCEPT ![c].pc = "failed"]
  /\ toast' = "Upload Failed"
  /\ UNCHANGED <<user, now, selectedFile, ui>>

\* generateAISuggestions: the suggestion types, in push order.
Suggestions(audio) ==
  IF audio THEN <<"scene_detection", "audio_sync", "quality_enhancement">>
  ELSE <<"scene_detection", "quality_enhancement">>

\* generateAISuggestions(projectId) of call c applied to the list `prev`.
generateAISuggestions(prev, c, audio) ==
  IF ~calls[c].closureHasId THEN prev
  ELSE MapById(prev, calls[c].id,
         [i \in DOMAIN prev |->
            [prev[i] EXCEPT !.aiSuggestions = Suggestions(audio)]])

\* A tick that leaves the local progress as it is.
TickProgressFrozen(c, inc) == calls[c].progress

\* The local variables of the interval callback after its if/else on
\* `progress < targetProgress`.
TickProgress(c, inc) ==
  LET targetProgress == processingSteps[calls[c].currentStepIndex + 1]
  IN IF calls[c].progress < targetProgress
     THEN Min(calls[c].progress + inc, targetProgress)
     ELSE calls[c].progress

\* The step index that never advances.
TickStepIndexStuck(c) == calls[c].currentStepIndex

TickStepIndex(c) ==
  LET targetProgress == processingSteps[calls[c].currentStepIndex + 1]
  IN IF calls[c].progress < targetProgress
     THEN calls[c].currentStepIndex
     ELSE calls[c].currentStepIndex + 1

\* The ternary with a failure for a progress below 20.
TickStatusFails(progress) ==
  IF progress < UploadingBelow THEN "error" ELSE "processing"

\* progress < 20 ? 'uploading' : 'processing'
TickStatus(progress) ==
  IF progress < UploadingBelow THEN "uploading" ELSE "processing"

\* One run of the setInterval callback of call c.
IntervalTick(c, inc, audio) ==
  /\ calls[c].pc = "interval"
  /\ LET progress == TickProgress(c, inc)
         currentStepIndex == TickStepIndex(c)
         completed == [i \in DOMAIN projects |->
                         [projects[i] EXCEPT !.status = "completed",
                                             !.progress = 100,
                                             !.duration = "1:45"]]
         updated == [i \in DOMAIN projects |->
                       [projects[i] EXCEPT !.status = TickStatus(progress),
                                           !.progress = progress]]
     IN IF progress >= 100 \/ currentStepIndex >= Len(processingSteps)
        THEN /\ projects' = generateAISuggestions(
                              MapById(projects, calls[c].id, completed), c, audio)
             /\ calls' = [calls EXCEPT ![c].pc = "cleared", ![c].progress = 100,
                                       ![c].currentStepIndex = currentStepIndex]
             /\ toast' = "Processing Complete!"
        ELSE /\ projects' = MapById(projects, calls[c].id, updated)
             /\ calls' = [calls EXCEPT ![c].progress = progress,
                                       ![c].currentStepIndex = currentStepIndex]
             /\ toast' = toast
  /\ UNCHANGED <<user, now, selectedFile, ui>>

\* handleFileUpload(file): one of its three outcomes.
handleFileUpload(file) ==
  \/ handleFileUploadNoUser(file)
  \/ handleFileUploadInvalid(file)
  \/ handleFileUploadAccepted(file)

\* The next-state relation over the files F offered, the percentages P
\* reported and the increments I drawn.
NextOn(F, P, I) ==
  \/ \E u \in Users : onAuthStateChanged(u)
  \/ ClockTick
  \/ \E file \in F : handleFileUpload(file)
  \/ \E c \in DOMAIN calls, percent \in P : onProgress(c, percent)
  \/ \E c \in DOMAIN calls : UploadResolved(c)
  \/ \E c \in DOMAIN calls : UploadRejected(c)
  \/ \E c \in DOMAIN calls, inc \in I, audio \in BOOLEAN :
       IntervalTick(c, inc, audio)

Next == NextOn(Files, Percents, Increments)

Spec == Init /\ [][Next]_vars

\* The same program with a storage client that also reports percentages
\* outside 0..100.
NextAnyPercent == NextOn(Files, Percents \cup OutOfRangePercents, Increments)

SpecAnyPercent == Init /\ [][NextAnyPercent]_vars

\* The scheduling of the browser: the upload promise of every call settles,
\* and the interval of every call keeps firing until it is cleared.
Settles(c) == c \in DOMAIN calls /\ (UploadResolved(c) \/ UploadRejected(c))
Fires(c) ==
  /\ c \in DOMAIN calls
  /\ \E inc \in Increments, audio \in BOOLEAN : IntervalTick(c, inc, audio)

FairNext == NextOn(FairFiles, FairPercents, Increments)

FairSpec ==
  /\ Init
  /\ [][FairNext]_vars
  /\ \A c \in 1..MaxSubmits : WF_vars(Settles(c)) /\ WF_vars(Fires(c))

\* Values of Math.random() * 8 + 2 with which a tick is cut short by
\* Math.min(progress, targetProgress): 7 + 7 = 14, then 15.
CappedIncrements == {7, 9}

\* The interval of call c fires, with an increment of CappedIncrements.
Ticks(c) ==
  /\ c \in DOMAIN calls
  /\ \E inc \in CappedIncrements, audio \in BOOLEAN : IntervalTick(c, inc, audio)

IntervalNext == NextOn(FairFiles, FairPercents, CappedIncrements)

\* The program with the scheduling of the browser, as in FairSpec.
IntervalSpec ==
  /\ Init
  /\ [][IntervalNext]_vars
  /\ \A c \in 1..MaxSubmits : WF_vars(Settles(c)) /\ WF_vars(Ticks(c))

\* ------------------------------------------------------------ the timeline
Max(a, b) == IF a > b THEN a ELSE b

\* Default segments of which the second starts before the first has ended.
defaultSegmentsOverlapping ==
  << [id |-> "1", start |-> 0, end |-> 25, type |-> "scene",
      confidence |-> 92, label |-> "Opening Scene"],
     [id |-> "2", start |-> 20, end |-> 45, type |-> "transition",
      confidence |-> 78, label |-> "Fade Transition"],
     [id |-> "3", start |-> 45, end |-> 154, type |-> "scene",
      confidence |-> 89, label |-> "Main Content"] >>

\* VideoTimeline: defaultSegments (confidence in hundredths).
defaultSegments ==
  << [id |-> "1", start |-> 0, end |-> 25, type |-> "scene",
      confidence |-> 92, label |-> "Opening Scene"],
     [id |-> "2", start |-> 25, end |-> 45, type |-> "transition",
      confidence |-> 78, label |-> "Fade Transition"],
     [id |-> "3", start |-> 45, end |-> 85, type |-> "scene",
      confidence |-> 89, label |-> "Main Content"],
     [id |-> "4", start |-> 85, end |-> 120, type |-> "audio",
      confidence |-> 85, label |-> "Music Overlay"],
     [id |-> "5", start |-> 120, end |-> 154, type |-> "scene",
      confidence |-> 94, label |-> "Closing Scene"] >>

\* The segments prop of <VideoTimeline .../> in App: not passed, so the
\* parameter takes its default `[]`.
segments == <<>>

\* segments.length > 0 ? segments : defaultSegments
timelineSegments == IF Len(segments) > 0 THEN segments ELSE defaultSegments

\* Places of a click on the timeline, as clickX / rect.width in hundredths.
\* clientX is a whole pixel and rect.left is not, so a click on an edge of the
\* track can fall just outside 0..100.
ClickPercents == {-1, 50, 101}

\* Ids of the segments that are clicked.
ClickedSegments == {"1", "3"}

\* A seek that also restarts the projects that are uploading or processing.
handleTimeChangeRestarts(time) ==
  /\ currentTime' = time
  /\ projects' = [i \in DOMAIN projects |->
                    IF projects[i].status \in {"uploading", "processing"}
                    THEN [projects[i] EXCEPT !.status = "uploading", !.progress = 0]
                    ELSE projects[i]]
  /\ UNCHANGED <<user, now, selectedFile, calls, toast, selectedSegment,
                 export, analysis, exporting>>

\* App.handleTimeChange(time): setCurrentTime(time).
handleTimeChange(time) ==
  /\ currentTime' = time
  /\ UNCHANGED <<user, now, projects, selectedFile, calls, toast, exporting,
                 selectedSegment, export, analysis>>

\* A click that passes newTime on as it is.
handleTimelineClickUnclamped(percent) ==
  handleTimeChange((percent * duration) \div 100)

\* VideoTimeline.handleTimelineClick: newTime = percentage * duration, passed
\* on as Math.max(0, Math.min(duration, newTime)).
handleTimelineClick(percent) ==
  LET newTime == (percent * duration) \div 100
  IN handleTimeChange(Max(0, Min(duration, newTime)))

\* onClick of the segment `id`: stopPropagation, then
\* setSelectedSegment(selectedSegment === segment.id ? null : segment.id).
segmentClick(id) ==
  /\ \E i \in DOMAIN timelineSegments : timelineSegments[i].id = id
  /\ selectedSegment' = IF selectedSegment = id THEN "" ELSE id
  /\ UNCHANGED <<user, now, projects, selectedFile, calls, toast, exporting,
                 currentTime, export, analysis>>

\* Values of Math.random() * 8 + 2 in the specification of the timeline.
TimelineIncrements == {9}

\* The project list with the timeline on screen.
TimelineNext ==
  \/ NextOn(FairFiles, FairPercents, TimelineIncrements)
  \/ \E percent \in ClickPercents : handleTimelineClick(percent)
  \/ \E id \in ClickedSegments : segmentClick(id)

TimelineSpec == Init /\ [][TimelineNext]_vars

\* ------------------------------------------------------------ ExportOptions
\* exportPresets: id, format, resolution and size as the cards show them; the
\* resolution of a card is written with the sign '×', the resolution of the
\* settings with the letter 'x'.
exportPresets ==
  { [id |-> "youtube", format |-> "MP4", resolution |-> "1920×1080",
     size |-> "~45 MB"],
    [id |-> "instagram", format |-> "MP4", resolution |-> "1080×1080",
     size |-> "~32 MB"],
    [id |-> "tiktok", format |-> "MP4", resolution |-> "1080×1920",
     size |-> "~28 MB"],
    [id |-> "web", format |-> "MP4", resolution |-> "1280×720",
     size |-> "~22 MB"],
    [id |-> "high_quality", format |-> "MOV", resolution |-> "3840×2160",
     size |-> "~180 MB"],
    [id |-> "compressed", format |-> "MP4", resolution |-> "854×480",
     size |-> "~12 MB"] }

PresetIds == {preset.id : preset \in exportPresets}

formatOptions == {"mp4", "mov", "avi", "webm"}

\* customSettings.format.toUpperCase(), the format as the export summary
\* shows it.
toUpperCase(format) ==
  CASE format = "mp4" -> "MP4"
    [] format = "mov" -> "MOV"
    [] format = "avi" -> "AVI"
    [] format = "webm" -> "WEBM"
resolutionOptions == {"3840x2160", "1920x1080", "1280x720", "854x480"}

\* Values of the quality slider that are tried (min 10, max 100, step 5).
QualityValues == {10, 80, 100}

\* Math.round(num / den) for num >= 0, den > 0.
Round(num, den) == (2 * num + den) \div (2 * den)

\* updateEstimates: resolutionMultiplier, in tenths; `|| 1` for a resolution
\* that is not a key of the table.
resolutionMultiplier(resolution) ==
  CASE resolution = "3840x2160" -> 40
    [] resolution = "1920x1080" -> 10
    [] resolution = "1280x720" -> 6
    [] resolution = "854x480" -> 3
    [] OTHER -> 10

\* Math.round(baseSize * resolutionMultiplier * qualityMultiplier), with
\* qualityMultiplier = settings.quality / 100.
estimatedSizeMB(settings) ==
  Round(baseSize * resolutionMultiplier(settings.resolution) * settings.quality,
        1000)

\* Math.round(baseTime * resolutionMultiplier * qualityMultiplier)
estimatedTimeMin(settings) ==
  Round(baseTime * resolutionMultiplier(settings.resolution) * settings.quality,
        1000)

\* `~${estimatedSizeMB} MB`
SizeText(settings) == "~" \o ToString(estimatedSizeMB(settings)) \o " MB"

\* `${estimatedTimeMin}-${estimatedTimeMin + 1} minutes`
TimeText(settings) ==
  ToString(estimatedTimeMin(settings)) \o "-"
    \o ToString(estimatedTimeMin(settings) + 1) \o " minutes"

\* setCustomSettings(newSettings); updateEstimates(newSettings)
SetAndEstimate(newSettings) ==
  /\ customSettings' = newSettings
  /\ estimatedSize' = SizeText(newSettings)
  /\ estimatedTime' = TimeText(newSettings)

\* handlePresetSelect: the switch on presetId.
PresetSettings(presetId, settings) ==
  CASE presetId = "youtube" ->
         [settings EXCEPT !.resolution = "1920x1080", !.quality = 80,
                          !.bitrate = 8000]
    [] presetId = "instagram" ->
         [settings EXCEPT !.resolution = "1080x1080", !.quality = 75,
                          !.bitrate = 6000]
    [] presetId = "tiktok" ->
         [settings EXCEPT !.resolution = "1080x1920", !.quality = 75,
                          !.bitrate = 6000]
    [] presetId = "web" ->
         [settings EXCEPT !.resolution = "1280x720", !.quality = 65,
                          !.bitrate = 4000]
    [] presetId = "high_quality" ->
         [settings EXCEPT !.resolution = "3840x2160", !.quality = 95,
                          !.bitrate = 20000]
    [] presetId = "compressed" ->
         [settings EXCEPT !.resolution = "854x480", !.quality = 50,
                          !.bitrate = 2000]
    [] OTHER -> settings

\* handlePresetSelect(presetId), the click on a preset card.
handlePresetSelect(presetId) ==
  /\ selectedPreset' = presetId
  /\ IF presetId \in PresetIds
     THEN SetAndEstimate(PresetSettings(presetId, customSettings))
     ELSE UNCHANGED <<customSettings, estimatedSize, estimatedTime>>
  /\ UNCHANGED <<user, now, projects, selectedFile, calls, toast, timeline,
                 exporting, analysis>>

\* onClick of a format: setCustomSettings(prev => ({ ...prev, format })).
formatClick(format) ==
  /\ customSettings' = [customSettings EXCEPT !.format = format]
  /\ UNCHANGED <<user, now, projects, selectedFile, calls, toast, timeline,
                 exporting, selectedPreset, estimatedSize, estimatedTime, analysis>>

\* onClick of a resolution.
resolutionClick(resolution) ==
  /\ SetAndEstimate([customSettings EXCEPT !.resolution = resolution])
  /\ UNCHANGED <<user, now, projects, selectedFile, calls, toast, timeline,
                 exporting, selectedPreset, analysis>>

\* onValueChange of the quality slider.
qualityChange(quality) ==
  /\ SetAndEstimate([customSettings EXCEPT !.quality = quality])
  /\ UNCHANGED <<user, now, projects, selectedFile, calls, toast, timeline,
                 exporting, selectedPreset, analysis>>

\* onCheckedChange of the two switches.
includeSubtitlesChange(checked) ==
  /\ customSettings' = [customSettings EXCEPT !.includeSubtitles = checked]
  /\ UNCHANGED <<user, now, projects, selectedFile, calls, toast, timeline,
                 exporting, selectedPreset, estimatedSize, estimatedTime, analysis>>

watermarkChange(checked) ==
  /\ customSettings' = [customSettings EXCEPT !.watermark = checked]
  /\ UNCHANGED <<user, now, projects, selectedFile, calls, toast, timeline,
                 exporting, selectedPreset, estimatedSize, estimatedTime, analysis>>

ExportNext ==
  \/ \E presetId \in PresetIds : handlePresetSelect(presetId)
  \/ \E format \in formatOptions : formatClick(format)
  \/ \E resolution \in resolutionOptions : resolutionClick(resolution)
  \/ \E quality \in QualityValues : qualityChange(quality)
  \/ \E checked \in BOOLEAN : includeSubtitlesChange(checked)
  \/ \E checked \in BOOLEAN : watermarkChange(checked)

ExportSpec == Init /\ [][ExportNext]_vars

\* ------------------------------------------------------- App.handleExport
\* Number of App.handleExport calls in one run.
MaxExports == 2

exportSteps ==
  <<"Preparing export...", "Applying AI enhancements...", "Rendering video...",
    "Optimizing quality...", "Finalizing export...">>

\* Start Export clicked with no regard to an export that is running.
handleExportUnguarded ==
  /\ Len(exports) < MaxExports
  /\ isExporting' = TRUE
  /\ exportProgress' = 0
  /\ exports' = Append(exports, [exportSettings |-> customSettings, i |-> 0,
                                 pc |-> "await"])
  /\ UNCHANGED <<user, now, projects, selectedFile, calls, toast, timeline,
                 export, analysis>>

\* The click on Start Export, a button that is rendered when !isExporting:
\* ExportOptions.handleExport calls onExport(customSettings), which is
\* App.handleExport, up to its first await.
handleExport ==
  /\ ~isExporting
  /\ Len(exports) < MaxExports
  /\ isExporting' = TRUE
  /\ exportProgress' = 0
  /\ exports' = Append(exports, [exportSettings |-> customSettings, i |-> 0,
                                 pc |-> "await"])
  /\ UNCHANGED <<user, now, projects, selectedFile, calls, toast, timeline,
                 export, analysis>>

\* The progress left by the last pass without the reset of `finally`.
ExportProgressKept(i) == i * 20

\* exportProgress after the task in which the loop has set it to i * 20:
\* the last pass leaves the loop and runs `finally` in the same task, and the
\* state updates of one task are committed together.
ExportProgressAfter(i) == IF i < Len(exportSteps) THEN i * 20 ELSE 0

\* The 2000 ms timeout of call r fires: setExportProgress((i + 1) * 20), i++;
\* after the last step the toast, then setIsExporting(false) and
\* setExportProgress(0).
exportTimeout(r) ==
  /\ exports[r].pc = "await"
  /\ LET i == exports[r].i + 1
     IN /\ exportProgress' = ExportProgressAfter(i)
        /\ IF i < Len(exportSteps)
           THEN /\ exports' = [exports EXCEPT ![r].i = i]
                /\ UNCHANGED <<isExporting, toast>>
           ELSE /\ exports' = [exports EXCEPT ![r].i = i, ![r].pc = "done"]
                /\ isExporting' = FALSE
                /\ toast' = "Export Complete!"
  /\ UNCHANGED <<user, now, projects, selectedFile, calls, timeline, export,
                 analysis>>

\* The formats that are clicked in the specification of the exports.
RunFormats == {"mp4", "mov"}

\* ExportOptions with its exports: the presets and the settings are on
\* screen when no export is running (`isExporting ? progress : tabs`).
ExportRunNext ==
  \/ ~isExporting /\ \E presetId \in PresetIds : handlePresetSelect(presetId)
  \/ ~isExporting /\ \E format \in RunFormats : formatClick(format)
  \/ handleExport
  \/ \E r \in DOMAIN exports : exportTimeout(r)

ExportRunSpec == Init /\ [][ExportRunNext]_vars

\* ------------------------------------------------------ AIProcessingInsights
\* Number of simulateAIAnalysis calls in one run.
MaxAnalyses == 2
\* Number of the timeouts of one simulateAIAnalysis call that fire in one run.
MaxStages == 2

\* Values of Math.random() * 15 + 5, a real number of [5, 20).
InsightIncrements == {19}

\* `insight-${index}`
InsightId(index) == "insight-" \o ToString(index)

\* newInsight of the template `index` (0-based, as in the source).
newInsight(index) ==
  [id |-> InsightId(index), type |-> insightTemplates[index + 1],
   progress |-> 0, status |-> "analyzing"]

\* The isProcessing prop changes to `flag`; the effect runs after the render.
isProcessingChanged(flag) ==
  /\ flag # isProcessing
  /\ flag => Len(analyses) < MaxAnalyses
  /\ isProcessing' = flag
  /\ analyses' = AnalysesAfterEffect(analyses, flag)
  /\ UNCHANGED <<user, now, projects, selectedFile, calls, toast, timeline,
                 exporting, export, insights>>

\* The setTimeout callback of template `index` of call a (delay index * 3000:
\* the timeouts of one call fire in the order of the templates).
insightTimeout(a, index) ==
  /\ index < MaxStages
  /\ analyses[a][index + 1].pc = "timeout"
  /\ \A j \in 1..index : analyses[a][j].pc # "timeout"
  /\ insights' = Append(insights, newInsight(index))
  /\ analyses' = [analyses EXCEPT ![a][index + 1].pc = "interval"]
  /\ UNCHANGED <<user, now, projects, selectedFile, calls, toast, timeline,
                 exporting, export, isProcessing>>

\* prev.map(insight => insight.id === id ? { ...insight, changes } : insight)
MapInsights(prev, id, progress, status) ==
  [i \in DOMAIN prev |->
     IF prev[i].id = id
     THEN [prev[i] EXCEPT !.progress = progress,
                          !.status = IF status = "" THEN @ ELSE status]
     ELSE prev[i]]

\* One run of the progressInterval callback of template `index` of call a.
progressTick(a, index, inc) ==
  /\ analyses[a][index + 1].pc = "interval"
  /\ LET progress == analyses[a][index + 1].progress + inc
     IN IF progress >= 100
        THEN /\ insights' = MapInsights(insights, InsightId(index), 100, "completed")
             /\ analyses' = [analyses EXCEPT ![a][index + 1] =
                               [pc |-> "cleared", progress |-> 100]]
        ELSE /\ insights' = MapInsights(insights, InsightId(index),
                                        Min(progress, 100), "")
             /\ analyses' = [analyses EXCEPT ![a][index + 1].progress = progress]
  /\ UNCHANGED <<user, now, projects, selectedFile, calls, toast, timeline,
                 exporting, export, isProcessing>>

InsightsNext ==
  \/ \E flag \in BOOLEAN : isProcessingChanged(flag)
  \/ \E a \in DOMAIN analyses, index \in 0..(Len(insightTemplates) - 1) :
       insightTimeout(a, index)
  \/ \E a \in DOMAIN analyses, index \in 0..(Len(insightTemplates) - 1),
         inc \in InsightIncrements :
       progressTick(a, index, inc)

InsightsSpec == Init /\ [][InsightsNext]_vars

\* ------------------------------------------------------- claim vocabulary
\* handleFileUploadAccepted prepends: the project at index i before a step is
\* the project at index i + Shift after it.
Shift == Len(projects') - Len(projects)

Active == {"uploading", "processing"}

\* The projects that carry the id of call c, before and after a step.
ProjectsOf(c) == {i \in DOMAIN projects : projects[i].id = calls[c].id}
ProjectsOfNext(c) == {i \in DOMAIN projects' : projects'[i].id = calls'[c].id}

\* C1: the progress of a project that is not in a terminal status never
\* decreases between two successive states.
C1_ProgressNeverDecreases ==
  [][\A i \in DOMAIN projects :
       projects[i].status \notin Terminal
         => projects'[i + Shift].progress >= projects[i].progress]_vars

\* The place of a status on the way uploading -> processing -> terminal.
StatusRank(s) ==
  CASE s = "uploading" -> 0
    [] s = "processing" -> 1
    [] OTHER -> 2

\* C2: once the status of a project is 'processing', no later event sets it
\* back to 'uploading'; a status only moves forward along
\* uploading -> processing -> completed or error.
C2_StatusOnlyMovesForward ==
  [][\A i \in DOMAIN projects :
       /\ StatusRank(projects'[i + Shift].status) >= StatusRank(projects[i].status)
       /\ projects[i].status = "processing"
            => projects'[i + Shift].status # "uploading"]_vars

\* C3: once the status of a project is 'completed' or 'error', its status and
\* its progress never change again.
C3_TerminalIsFrozen ==
  [][\A i \in DOMAIN projects :
       projects[i].status \in Terminal
         => /\ projects'[i + Shift].status = projects[i].status
            /\ projects'[i + Shift].progress = projects[i].progress]_vars

\* C4: in every reachable state a project has progress 100 exactly when its
\* status is 'completed'.
C4_HundredIffCompleted ==
  \A i \in DOMAIN projects :
    (projects[i].progress = 100) <=> (projects[i].status = "completed")

\* C5: when the upload of a project resolves, its status becomes 'processing'
\* and its progress exactly 15, and the progress stays at least 15 from then
\* on (while the interval of the call runs and after it is cleared).
C5_FifteenAfterUpload ==
  [][\A c \in DOMAIN calls :
       /\ UploadResolved(c)
            => \A i \in ProjectsOfNext(c) :
                 /\ projects'[i].status = "processing"
                 /\ projects'[i].progress = UploadShare
       /\ calls'[c].pc \in {"interval", "cleared"}
            => \A i \in ProjectsOfNext(c) :
                 \/ projects'[i].progress >= UploadShare
                 \/ i \notin {j + Shift : j \in ProjectsOf(c)}]_vars


Clamp(p, lo, hi) == IF p < lo THEN lo ELSE IF p > hi THEN hi ELSE p

AnyPercents == Percents \cup OutOfRangePercents

C8_UploadFailure ==
  [][\A c \in DOMAIN calls :
       /\ UploadRejected(c)
            => /\ \A i \in ProjectsOf(c) :
                    /\ projects'[i].status = "error"
                    /\ projects'[i].progress = projects[i].progress
               /\ \A d \in DOMAIN calls :
                    calls'[d].pc = "interval" => calls[d].pc = "interval"
       /\ calls[c].pc = "failed" => calls'[c] = calls[c]]_vars

\* A call whose upload rejected after a progress callback: its project is in
\* 'error' and shows the progress of the callback.
C8_Witness ==
  \E c \in DOMAIN calls :
    /\ calls[c].pc = "failed"
    /\ \E i \in ProjectsOf(c) :
         projects[i].status = "error" /\ projects[i].progress = 10

FromTail(k) == projects[Len(projects) - k + 1]

Reaches(k) ==
  (Len(projects) >= k /\ FromTail(k).status \in Active)
    ~> (Len(projects) >= k /\ FromTail(k).status \in Terminal)

\* C10: no project stays 'uploading' or 'processing' forever: every project
\* of the list, those of the initial state included, eventually reaches
\* 'completed' or 'error'.
C10_EveryProjectTerminates ==
  \A k \in 1..(Len(InitialProjects) + MaxSubmits) : Reaches(k)

\* C10 as amended: every project that a submission created eventually
\* reaches 'completed' or 'error'.  The 'processing' project of the initial
\* state has no upload and no interval, and stays 'processing'.
C10_SubmittedProjectsTerminate ==
  /\ \A k \in (Len(InitialProjects) + 1)..(Len(InitialProjects) + MaxSubmits) :
       Reaches(k)
  /\ [](projects[Len(projects)] = InitialProjects[Len(InitialProjects)])

\* Every call has ended, the submitted projects are terminal, one of them
\* 'completed', and the initial project is still 'processing'.
C10_Witness ==
  /\ Len(calls) = MaxSubmits
  /\ \A c \in DOMAIN calls : calls[c].pc \in {"failed", "cleared"}
  /\ \A k \in (Len(InitialProjects) + 1)..Len(projects) :
       FromTail(k).status \in Terminal
  /\ \E k \in (Len(InitialProjects) + 1)..Len(projects) :
       FromTail(k).status = "completed"
  /\ FromTail(1).status = "processing"

\* A suggestion list that holds a scene_detection and a quality_enhancement
\* suggestion.
HasSuggestions(p) ==
  /\ \E a \in DOMAIN p.aiSuggestions : p.aiSuggestions[a] = "scene_detection"
  /\ \E b \in DOMAIN p.aiSuggestions : p.aiSuggestions[b] = "quality_enhancement"

\* The indices, counted from the tail, of the projects that submissions create.
Submitted == (Len(InitialProjects) + 1)..(Len(InitialProjects) + MaxSubmits)

\* C11: when the processing of a submitted project finishes (its status is
\* 'completed'), the project eventually carries a non-empty aiSuggestions list
\* with a scene_detection and a quality_enhancement suggestion.
C11_SuggestionsAttached ==
  \A k \in Submitted :
    (Len(projects) >= k /\ FromTail(k).status = "completed")
      ~> (Len(projects) >= k /\ HasSuggestions(FromTail(k)))

\* C12: the suggestions of a project are in place in the state in which its
\* status becomes 'completed', and the aiSuggestions of a project that is
\* already 'completed' never change.
C12_SuggestionsFrozenOnceCompleted ==
  [][\A i \in DOMAIN projects :
       /\ (projects[i].status # "completed"
             /\ projects'[i + Shift].status = "completed")
            => projects'[i + Shift].aiSuggestions # <<>>
       /\ projects[i].status = "completed"
            => projects'[i + Shift].aiSuggestions = projects[i].aiSuggestions]_vars

\* The index of the project that call c created: calls prepend in call order.
EntryOf(c) == Len(projects) - Len(InitialProjects) - c + 1

\* An event of call c: a progress callback, the resolution or the rejection
\* of its upload, a tick of its interval.
EventOf(c) ==
  \/ \E percent \in Percents : onProgress(c, percent)
  \/ UploadResolved(c)
  \/ UploadRejected(c)
  \/ \E inc \in Increments, audio \in BOOLEAN : IntervalTick(c, inc, audio)

\* C13: an event of one project leaves the status, progress, duration, size
\* and suggestions of every other project of the list unchanged.
C13_OtherProjectsUnchanged ==
  [][\A c \in DOMAIN calls :
       EventOf(c)
         => \A i \in DOMAIN projects \ {EntryOf(c)} :
              /\ projects'[i].status = projects[i].status
              /\ projects'[i].progress = projects[i].progress
              /\ projects'[i].duration = projects[i].duration
              /\ projects'[i].size = projects[i].size
              /\ projects'[i].aiSuggestions = projects[i].aiSuggestions]_vars

\* C14: an accepted submission creates exactly one new project: the list
\* grows by one at its head, the projects it held follow unchanged, and the
\* new project has the name of the file, progress 0 and status 'uploading';
\* the call has applied no progress callback yet (its upload is in flight).
C14_SubmissionCreatesOneProject ==
  [][\A file \in Files :
       handleFileUploadAccepted(file)
         => /\ Len(projects') = Len(projects) + 1
            /\ Tail(projects') = projects
            /\ projects'[1].name = file.name
            /\ projects'[1].progress = 0
            /\ projects'[1].status = "uploading"
            /\ Len(calls') = Len(calls) + 1
            /\ calls'[Len(calls')].pc = "upload"
            /\ calls'[Len(calls')].id = projects'[1].id]_vars

\* A second submission has just been accepted while the first one is being
\* processed: its project is at the head, 'uploading' with progress 0.
C14_Witness ==
  /\ Len(calls) = 2
  /\ calls[1].pc = "interval"
  /\ calls[2].pc = "upload"
  /\ Len(projects) = Len(InitialProjects) + 2
  /\ projects[1].id = calls[2].id
  /\ projects[1].status = "uploading"
  /\ projects[1].progress = 0
  /\ projects[2].status = "processing"

\* C15: no operation removes a project or changes the relative order of the
\* projects of the list: the length never decreases, and the project at
\* index i is the project at index i + Shift after the step (same id, name
\* and size, which no operation changes).
C15_NoProjectDestroyed ==
  [][/\ Len(projects') >= Len(projects)
     /\ \A i \in DOMAIN projects :
          /\ projects'[i + Shift].id = projects[i].id
          /\ projects'[i + Shift].name = projects[i].name
          /\ projects'[i + Shift].size = projects[i].size]_vars

\* Every kind of operation has acted: two submissions, an upload that failed,
\* a processing that completed and attached suggestions; the list holds the
\* two initial projects and the two submitted ones.
C15_Witness ==
  /\ Len(projects) = Len(InitialProjects) + MaxSubmits
  /\ \E c, d \in DOMAIN calls : calls[c].pc = "failed" /\ calls[d].pc = "cleared"
  /\ \E i \in DOMAIN projects : projects[i].aiSuggestions # <<>>
  /\ projects[Len(projects) - 1].id = InitialProjects[1].id
  /\ projects[Len(projects)].id = InitialProjects[2].id

\* 0 <= start < end <= duration for every segment, ascending starts, and of
\* any two segments one ends at or before the start of the other.
WellFormed(list) ==
  /\ \A i \in DOMAIN list :
       0 <= list[i].start /\ list[i].start < list[i].end /\ list[i].end <= duration
  /\ \A i, j \in DOMAIN list : i < j => list[i].start < list[j].start
  /\ \A i, j \in DOMAIN list :
       i # j => (list[i].end <= list[j].start \/ list[j].end <= list[i].start)

SeekOrSelect ==
  \/ \E percent \in ClickPercents : handleTimelineClick(percent)
  \/ \E id \in ClickedSegments : segmentClick(id)

\* C17: a timeline click (handleTimelineClick, then handleTimeChange) and a
\* segment click leave the project list unchanged; no step that moves the
\* playhead or changes the selection changes a project or starts, settles or
\* advances a call.
C17_SeekLeavesProjects ==
  [][/\ SeekOrSelect => (projects' = projects /\ calls' = calls)
     /\ (currentTime' # currentTime \/ selectedSegment' # selectedSegment)
          => (projects' = projects /\ calls' = calls)]_vars

\* The playhead has been moved and a segment selected while one project is
\* being uploaded and another one is being processed.
C17_Witness ==
  /\ currentTime = duration
  /\ selectedSegment = "1"
  /\ \E c, d \in DOMAIN calls :
       /\ calls[c].pc = "interval"
       /\ calls[d].pc = "upload"
       /\ \E i \in ProjectsOf(c) : projects[i].status = "processing"

\* C18: the estimate shown is a function of the resolution and the quality of
\* the current settings: two reachable states with the same resolution and
\* quality show the same estimated size and time.  The initial state is
\* reachable, so every state whose settings have the resolution and quality
\* of the initial settings shows the estimate of the initial state.
C18_EstimateIsAFunction ==
  (/\ customSettings.resolution = initialSettings.resolution
   /\ customSettings.quality = initialSettings.quality)
    => (estimatedSize = "45.2 MB" /\ estimatedTime = "2-3 minutes")

\* The place of an analysis type in the order of the stages.
StageOf(type) == CHOOSE k \in DOMAIN insightTemplates : insightTemplates[k] = type

StageOrdered(list) ==
  \A i, j \in DOMAIN list : i < j => StageOf(list[i].type) <= StageOf(list[j].type)

\* C19: the insights are in the order of the stages (scene_detection,
\* audio_analysis, color_grading, motion_tracking, quality_enhancement), the
\* list only grows at its end, and an entry of the list keeps its place when
\* later insights are added or progress updates are applied.
C19_InsightsInStageOrder ==
  [][/\ Len(insights') >= Len(insights)
     /\ \A i \in DOMAIN insights :
          /\ insights'[i].id = insights[i].id
          /\ insights'[i].type = insights[i].type
     /\ StageOrdered(insights')]_vars

\* C20: whatever the changes of the isProcessing prop, the insights list never
\* holds two entries with the same id or the same analysis type.
C20_NoDuplicateInsights ==
  \A i, j \in DOMAIN insights :
    i # j => (insights[i].id # insights[j].id /\ insights[i].type # insights[j].type)

\* The target of the step that call c is at.
TargetOf(c) == processingSteps[calls[c].currentStepIndex + 1]

\* The interval of every call whose upload has resolved is cleared in the end.
IntervalIsCleared ==
  \A c \in 1..MaxSubmits :
    (Len(calls) >= c /\ calls[c].pc = "interval")
      ~> (Len(calls) >= c /\ calls[c].pc = "cleared")

\* The tick that clears the interval marks the project 'completed' with
\* progress 100, and a call whose interval is cleared never changes again: it
\* is cleared once and no tick of it follows.
ClearedOnce ==
  [][\A c \in DOMAIN calls :
       /\ (calls[c].pc = "interval" /\ calls'[c].pc = "cleared")
            => \A i \in ProjectsOfNext(c) :
                 projects'[i].status = "completed" /\ projects'[i].progress = 100
       /\ calls[c].pc = "cleared" => (calls'[c] = calls[c] /\ ~Ticks(c))]_vars

\* C21: for every project whose upload resolves the interval terminates:
\* each tick raises the simulated progress by at least 2 or advances the step
\* index, after finitely many ticks the project is marked 'completed', the
\* interval is cleared exactly once and no tick of it follows.
C21_IntervalTerminates ==
  /\ [][\A c \in DOMAIN calls :
         Ticks(c)
           => \/ calls'[c].progress >= calls[c].progress + 2
              \/ calls'[c].currentStepIndex = calls[c].currentStepIndex + 1]_vars
  /\ IntervalIsCleared
  /\ ClearedOnce

\* C21 as amended: a tick raises the progress by at least 2, or by less when
\* Math.min cuts it at the target of the step (the progress is then that
\* target), or advances the step index; the rest as in the claim.
C21_IntervalTerminatesWithCap ==
  /\ [][\A c \in DOMAIN calls :
         Ticks(c)
           => \/ calls'[c].progress >= calls[c].progress + 2
              \/ /\ calls'[c].progress > calls[c].progress
                 /\ calls'[c].progress = TargetOf(c)
              \/ calls'[c].currentStepIndex = calls[c].currentStepIndex + 1]_vars
  /\ IntervalIsCleared
  /\ ClearedOnce

\* One interval has been cleared with its project 'completed', while the
\* interval of another project stands at 14, one short of the target 15.
C21_Witness ==
  \E c, d \in DOMAIN calls :
    /\ calls[c].id # calls[d].id
    /\ calls[c].pc = "cleared"
    /\ \A i \in ProjectsOf(c) : projects[i].status = "completed"
    /\ calls[d].pc = "interval"
    /\ calls[d].progress = 14

\* C22: validateVideoFile accepts a file of an allowed type only if its size
\* is less than 500 MB: a file of maxSize bytes or more gets the error 'File
\* size must be less than 500MB', and its submission creates no project.
C22_LimitIsExclusive ==
  [][\A file \in Files :
       (file.type \in allowedTypes /\ file.size >= maxSize)
         => /\ validateVideoFile(file) = "File size must be less than 500MB"
            /\ ~handleFileUploadAccepted(file)]_vars

\* A submission of `file` that handleFileUpload turns away.
Rejected(file) == user = "null" \/ validateVideoFile(file) # "valid"

\* C23: a rejected submission (no signed-in user, a type outside the allowed
\* list, a file that is too large) creates no project and starts no upload:
\* the project list, the calls and the selected file are unchanged, and the
\* step that shows the toast 'Upload Error' changes nothing else.
C23_RejectionHasNoEffect ==
  [][/\ \A file \in Files :
          /\ Rejected(file) => ~handleFileUploadAccepted(file)
          /\ (handleFileUploadNoUser(file) \/ handleFileUploadInvalid(file))
               => (projects' = projects /\ calls' = calls
                   /\ selectedFile' = selectedFile)
     /\ (toast' = "Upload Error" /\ toast # "Upload Error")
          => (projects' = projects /\ calls' = calls
              /\ selectedFile' = selectedFile)]_vars

\* A file has just been turned away while an upload is in flight and a
\* project is being processed: the list holds the two submitted projects.
C23_Witness ==
  /\ toast = "Upload Error"
  /\ Len(calls) = 2
  /\ calls[1].pc = "interval"
  /\ calls[2].pc = "upload"
  /\ Len(projects) = Len(InitialProjects) + 2

\* A step that runs updateEstimates: a preset, a resolution or the quality.
Estimates ==
  \/ \E presetId \in PresetIds : handlePresetSelect(presetId)
  \/ \E resolution \in resolutionOptions : resolutionClick(resolution)
  \/ \E quality \in QualityValues : qualityChange(quality)

\* C24: updateEstimates uses 45 MB as the size for 1080p at 80% quality:
\* whenever it runs on settings with resolution '1920x1080' and quality 80
\* (the YouTube preset, listed as '~45 MB'), the computed size is 45 MB and
\* the estimate shown is '~45 MB'.
C24_BaseSizeAt1080p80 ==
  [][(/\ Estimates
      /\ customSettings'.resolution = "1920x1080"
      /\ customSettings'.quality = 80)
       => /\ estimatedSizeMB(customSettings') = baseSize
          /\ estimatedSize' = "~45 MB"]_vars

\* Width and height of a resolution, in the notation of the cards ('×') and
\* in the notation of the settings ('x').
Dimensions(resolution) ==
  CASE resolution \in {"3840×2160", "3840x2160"} -> <<3840, 2160>>
    [] resolution \in {"1920×1080", "1920x1080"} -> <<1920, 1080>>
    [] resolution \in {"1280×720", "1280x720"} -> <<1280, 720>>
    [] resolution \in {"1080×1080", "1080x1080"} -> <<1080, 1080>>
    [] resolution \in {"1080×1920", "1080x1920"} -> <<1080, 1920>>
    [] resolution \in {"854×480", "854x480"} -> <<854, 480>>

\* C25: after the selection of any of the six presets, from any settings,
\* the settings have the width and height and the format that the preset
\* declares (MOV for 'high_quality'), and Start Export passes these settings
\* to onExport.
C25_ExportedSettingsMatchPreset ==
  [][/\ \A preset \in exportPresets :
          handlePresetSelect(preset.id)
            => /\ Dimensions(customSettings'.resolution)
                    = Dimensions(preset.resolution)
               /\ toUpperCase(customSettings'.format) = preset.format
     /\ handleExport
          => exports'[Len(exports')].exportSettings = customSettings]_vars

\* The export runs that are waiting for a timeout.
InFlight == {r \in DOMAIN exports : exports[r].pc = "await"}

ExportProgressValues == {0, 20, 40, 60, 80, 100}

\* C26: in every state isExporting = false implies exportProgress = 0;
\* exportProgress is one of 0, 20, 40, 60, 80, 100 and does not decrease
\* while an export runs; the step that ends an export resets it to 0
\* together with isExporting.
C26_ProgressFollowsFlag ==
  /\ [](~isExporting => exportProgress = 0)
  /\ [](exportProgress \in ExportProgressValues)
  /\ [][(isExporting /\ isExporting') => exportProgress' >= exportProgress]_vars
  /\ [][(isExporting /\ ~isExporting')
         => (exportProgress' = 0 /\ InFlight' = {})]_vars

\* An export has run to its end and left the flag down and the progress 0.
C26_Witness ==
  /\ Len(exports) = 1
  /\ exports[1].pc = "done"
  /\ exports[1].i = Len(exportSteps)
  /\ ~isExporting
  /\ exportProgress = 0

\* C27: at most one export run is in flight: isExporting is true exactly
\* while a run is in flight, Start Export is not available while it is true,
\* a run starts only when every earlier run is done, and the step of a run
\* that sets the progress or resets the flag finds no other run in flight.
C27_OneExportInFlight ==
  /\ [](Cardinality(InFlight) <= 1)
  /\ [](isExporting <=> InFlight # {})
  /\ [](isExporting => ~ENABLED handleExport)
  /\ [][handleExport => InFlight = {}]_vars
  /\ [][\A r \in DOMAIN exports : exportTimeout(r) => InFlight = {r}]_vars

\* A second export is under way after the first one has finished.
C27_Witness ==
  /\ Len(exports) = 2
  /\ exports[1].pc = "done"
  /\ exports[2].pc = "await"
  /\ isExporting
  /\ exportProgress = 40

\* C28: in every state 0 <= currentTime <= duration; a step that changes
\* currentTime is a timeline click, which passes on a time clamped into
\* [0, duration]; a click is never rejected.
C28_PositionInsideAsset ==
  /\ [](0 <= currentTime /\ currentTime <= duration)
  /\ [][currentTime' # currentTime
         => \E percent \in ClickPercents : handleTimelineClick(percent)]_vars
  /\ [](\A percent \in ClickPercents : ENABLED handleTimelineClick(percent))

\* A click beyond the right end of the track has put the playhead at the end
\* of the asset, with no file submitted.
C28_Witness ==
  /\ currentTime = duration
  /\ selectedSegment = "3"
  /\ Len(calls) = 0

\* C29: in every state the ids of the projects are pairwise distinct.
C29_IdsPairwiseDistinct ==
  \A i, j \in DOMAIN projects : i # j => projects[i].id # projects[j].id

=============================================================================
